---- MODULE Spec2Model ----
(***************************************************************************)
(* In-memory filesystem simulation, two presentation variants:             *)
(*   - the Windows-style variant (winfilesystem.py: FileNode,              *)
(*     FileSystemModel, FileEditor, FileManager), specification Spec, and  *)
(*     SpecEdit where the editor saves file contents, on a smaller tree;   *)
(*   - the simple button variant (simplefilesystem.py: FileNode,           *)
(*     Filesystem), specification SpecSimple.                              *)
(* SpecNames is the Windows-style variant with names that read as path     *)
(* syntax; SpecBoth has the runs of either program.                        *)
(* Node references are identities 1, 2, ... in creation order, None is 0.  *)
(* Strings are sequences of one-character strings, so that split('/'),     *)
(* startswith and join are computed and not assumed.                       *)
(***************************************************************************)
EXTENDS Integers, Sequences, FiniteSets, TLC

\* ---------------------------------------------------------------- bounds
\* Number of FileNode objects ever constructed (root and ROOT included).
MaxNodes == 5
\* Longest history list the navigation actions are allowed to build.
MaxHist == 2
\* Number of FileNode objects the simple variant ever constructs.
MaxSimpleNodes == 4
\* Number of FileNode objects ever constructed where file contents are saved.
MaxEditNodes == 4
\* Number of FileNode objects ever constructed where the name dialog is
\* answered with names that read as path syntax.
MaxNamedNodes == 4

\* ------------------------------------------------------------- constants
\* Python's None as a node reference.
None == 0
\* FileManager.root, the first FileNode constructed.
Root == 1
\* The outcome "an exception was raised" of a model-index computation.
Raised == -1

\* The name of the directory initFileSystem creates under root.
ROOT_NAME == <<"R", "O", "O", "T">>
\* The names the QInputDialog of create_item / rename_item is answered with.
\* The empty answer is rejected by both handlers before anything happens.
DialogNames == {<<>>, <<"a">>, <<"b">>}

\* ================================================================ strings

\* s.startswith(p)
startswith(s, p) ==
    /\ Len(p) <= Len(s)
    /\ SubSeq(s, 1, Len(p)) = p

RECURSIVE splitFrom(_, _, _)
\* The pieces of s[i..] cut at every '/', acc being the piece under way.
splitFrom(s, i, acc) ==
    IF i > Len(s) THEN <<acc>>
    ELSE IF s[i] = "/" THEN <<acc>> \o splitFrom(s, i + 1, <<>>)
    ELSE splitFrom(s, i + 1, Append(acc, s[i]))

\* s.split('/'): never empty, "" gives [""], "a//b" gives ["a", "", "b"].
split(s) == splitFrom(s, 1, <<>>)

RECURSIVE join(_)
\* '/'.join(parts)
join(parts) ==
    IF Len(parts) = 0 THEN <<>>
    ELSE IF Len(parts) = 1 THEN parts[1]
    ELSE parts[1] \o <<"/">> \o join(Tail(parts))

\* The comprehension of resolve_path keeping the empty pieces.
allParts(parts) == parts

RECURSIVE nonEmpty(_)
\* [p for p in parts if p]
nonEmpty(parts) ==
    IF Len(parts) = 0 THEN <<>>
    ELSE IF Head(parts) = <<>> THEN nonEmpty(Tail(parts))
    ELSE <<Head(parts)>> \o nonEmpty(Tail(parts))

\* ======================================================= Windows variant

\* The FileManager: the FileNode objects by identity, and the navigation
\* state self.current, self.history, self.future.
VARIABLES nodes, current, history, future, uncaught

winvars == <<nodes, current, history, future, uncaught>>

\* FileNode(name, isdir, parent): a fresh node, no child, no siblings, the
\* content "" and metadata['size'] 0.  A text is the sequence of its code
\* points.
FileNode(name, isdir, parent) ==
    [name |-> name, isdir |-> isdir, parent |-> parent, child |-> None,
     sibling_prev |-> None, sibling_next |-> None,
     content |-> <<>>, size |-> 0]

RECURSIVE Chain(_, _)
\* The nodes met from `first` along sibling_next, in order.
Chain(nd, first) ==
    IF first = None THEN <<>>
    ELSE <<first>> \o Chain(nd, nd[first].sibling_next)

\* The set of the elements of a sequence.
Range(s) == {s[i] : i \in 1..Len(s)}

RECURSIVE Descendants(_, _)
\* Every node below n by child / sibling_next links.
Descendants(nd, n) ==
    LET kids == Range(Chain(nd, nd[n].child))
    IN  kids \cup UNION {Descendants(nd, k) : k \in kids}

\* The nodes reachable from root, root included.
Reachable(nd) == {Root} \cup Descendants(nd, Root)

\* ------------------------------------------------------ FileSystemModel
\* A QModelIndex is modelled by its internalPointer; None is the invalid
\* index.  FileSystemModel.current is set once, to root, and never again.
model_current == Root

RECURSIVE indexIn(_, _, _, _)
\* The loop of sibling_index: the position of node from cur on, 0 if absent.
indexIn(nd, cur, node, index) ==
    IF cur = None THEN 0
    ELSE IF cur = node THEN index
    ELSE indexIn(nd, nd[cur].sibling_next, node, index + 1)

\* FileSystemModel.sibling_index(node); node.parent on None raises.
sibling_index(nd, node) ==
    IF node = None THEN Raised
    ELSE IF nd[node].parent = None THEN 0
    ELSE indexIn(nd, nd[nd[node].parent].child, node, 0)

\* FileSystemModel.rowCount(parent)
rowCount(nd, parent) ==
    LET parent_node == IF parent # None THEN parent ELSE model_current
    IN  Len(Chain(nd, nd[parent_node].child))

\* QAbstractItemModel.hasIndex(row, 0, parent)
hasIndex(nd, row, parent) == row >= 0 /\ row < rowCount(nd, parent)

\* FileSystemModel.index(row, 0, parent)
index(nd, row, parent) ==
    IF ~hasIndex(nd, row, parent) THEN None
    ELSE LET parent_node == IF parent # None THEN parent ELSE model_current
             ch == Chain(nd, nd[parent_node].child)
         IN  IF row + 1 <= Len(ch) THEN ch[row + 1] ELSE None

\* FileSystemModel.parent(createIndex(0, 0, child))
model_parent(nd, child) ==
    IF child = None THEN Raised
    ELSE LET parent == nd[child].parent
         IN  IF parent = Root \/ parent = model_current THEN None
             ELSE IF sibling_index(nd, parent) = Raised THEN Raised
             ELSE parent

\* remove_node leaving the next sibling's sibling_prev as it is.
remove_node_keeps_prev(st, parent_index, node) ==
    LET nd == st.nd
        parent == IF parent_index # None THEN parent_index ELSE model_current
        found == node \in Range(Chain(nd, nd[parent].child))
        prev == nd[node].sibling_prev
        next == nd[node].sibling_next
        nd1 == IF prev # None
               THEN [nd EXCEPT ![prev].sibling_next = next] ELSE nd
        nd3 == IF nd1[parent].child = node
               THEN [nd1 EXCEPT ![parent].child = nd1[node].sibling_next]
               ELSE nd1
        nd4 == [nd3 EXCEPT ![node].parent = None,
                           ![node].sibling_prev = None,
                           ![node].sibling_next = None]
    IN  IF ~found THEN st
        ELSE [nd |-> nd4, ev |-> Append(st.ev, node)]

\* FileSystemModel.remove_node(parent_index, node) on st = [nd, ev]: nd the
\* nodes, ev the nodes a beginRemoveRows/endRemoveRows pair was emitted for.
remove_node(st, parent_index, node) ==
    LET nd == st.nd
        parent == IF parent_index # None THEN parent_index ELSE model_current
        found == node \in Range(Chain(nd, nd[parent].child))
        prev == nd[node].sibling_prev
        next == nd[node].sibling_next
        nd1 == IF prev # None
               THEN [nd EXCEPT ![prev].sibling_next = next] ELSE nd
        nd2 == IF next # None
               THEN [nd1 EXCEPT ![next].sibling_prev = prev] ELSE nd1
        nd3 == IF nd2[parent].child = node
               THEN [nd2 EXCEPT ![parent].child = nd2[node].sibling_next]
               ELSE nd2
        nd4 == [nd3 EXCEPT ![node].parent = None,
                           ![node].sibling_prev = None,
                           ![node].sibling_next = None]
    IN  IF ~found THEN st
        ELSE [nd |-> nd4, ev |-> Append(st.ev, node)]

RECURSIVE delete_node(_, _, _)
RECURSIVE delete_children(_, _, _)
\* The while loop of _delete_node: child is the next child to destroy; its
\* sibling_next is read before the recursive call, and the index passed down
\* is model.index(0, 0, parent_index), evaluated at each turn.
delete_children(st, child, parent_index) ==
    IF child = None THEN st
    ELSE LET next_child == st.nd[child].sibling_next
             st1 == delete_node(st, child, index(st.nd, 0, parent_index))
         IN  delete_children(st1, next_child, parent_index)

\* FileManager._delete_node(node, parent_index)
delete_node(st, node, parent_index) ==
    remove_node(delete_children(st, st.nd[node].child, parent_index),
                parent_index, node)

\* [n for n in seq if n != node]
without(seq, node) == SelectSeq(seq, LAMBDA n : n # node)

\* ---------------------------------------------------------- FileManager
\* The state of a FileManager, as the handlers read and write it.  uncaught
\* tells that an exception has left a slot: no handler of the class catches
\* it there and no sys.excepthook is installed, so PyQt5 ends the process.
FM(nd, cur, hist, fut) ==
    [nodes |-> nd, current |-> cur, history |-> hist, future |-> fut,
     uncaught |-> FALSE]

\* _create_node with the new node linked in as the head of the chain.
create_node_at_head(nd, name, isdir, parent) ==
    LET node == Len(nd) + 1
        fresh == FileNode(name, isdir, parent)
        first == nd[parent].child
    IN  IF first = None
        THEN [Append(nd, fresh) EXCEPT ![parent].child = node]
        ELSE [Append(nd, [fresh EXCEPT !.sibling_next = first])
                 EXCEPT ![first].sibling_prev = node, ![parent].child = node]

\* FileManager._create_node(name, isdir, parent): the new node is the next
\* identity; it goes to the tail of parent's sibling chain.
create_node(nd, name, isdir, parent) ==
    LET node == Len(nd) + 1
        fresh == FileNode(name, isdir, parent)
        ch == Chain(nd, nd[parent].child)
        last == ch[Len(ch)]
    IN  IF nd[parent].child = None
        THEN [Append(nd, fresh) EXCEPT ![parent].child = node]
        ELSE [Append(nd, [fresh EXCEPT !.sibling_prev = last])
                 EXCEPT ![last].sibling_next = node]

\* The scan of create_item stopping after the first child.
name_taken_first_only(nd, parent_node, name) ==
    /\ nd[parent_node].child # None
    /\ nd[nd[parent_node].child].name = name

\* The scan of create_item: some child of parent_node is called name.
name_taken(nd, parent_node, name) ==
    \E c \in Range(Chain(nd, nd[parent_node].child)) : nd[c].name = name

\* The number of bytes str.encode('utf-8') gives one code point; for a
\* surrogate, U+D800 to U+DFFF, it raises UnicodeEncodeError.
utf8_bytes(cp) ==
    IF cp < 128 THEN 1
    ELSE IF cp < 2048 THEN 2
    ELSE IF cp >= 55296 /\ cp <= 57343 THEN Raised
    ELSE IF cp < 65536 THEN 3
    ELSE 4

RECURSIVE encoded_len(_)
\* len(text.encode('utf-8')); Raised when a code point cannot be encoded.
encoded_len(text) ==
    IF Len(text) = 0 THEN 0
    ELSE LET first == utf8_bytes(Head(text))
             rest == encoded_len(Tail(text))
         IN  IF first = Raised \/ rest = Raised THEN Raised
             ELSE first + rest

\* What the user does with a FileEditor dialog: closes it without saving,
\* or presses the save button with `text` in the editor.  When the save
\* goes through it closes the dialog with accept(); when it does not, the
\* dialog stays open and is closed with Cancel.
EditorCancelled == [save |-> FALSE, text |-> <<>>]
EditorSaved(text) == [save |-> TRUE, text |-> text]

\* The try block of save_content raises: the encoding of line 186, after
\* line 183 has stored the content.
save_raises(new_content) == encoded_len(new_content) = Raised

\* FileEditor.save_content() on self.node = node, the editor holding
\* new_content.  The content is stored first; when the encoding raises,
\* metadata.update is not reached, the except clause shows the message and
\* the size stays as it was.
save_content(nd, node, new_content) ==
    LET stored == [nd EXCEPT ![node].content = new_content]
    IN  IF save_raises(new_content) THEN stored
        ELSE [stored EXCEPT ![node].size = encoded_len(new_content)]

\* FileManager.open_file(node), the user's part in the editor being
\* `answer`.  A save that raised leaves the dialog unaccepted: exec_() does
\* not give Accepted and open_file does nothing more.  After an accepted
\* dialog, with the content saved, model.parent(createIndex(0, 0, node)) is
\* evaluated for the dataChanged emission: it raises when node.parent is
\* None, and open_file has no try around it.  The emission itself writes no
\* node.
open_file(s, node, answer) ==
    IF s.nodes[node].isdir THEN s
    ELSE IF answer.save
    THEN LET saved == [s EXCEPT
                          !.nodes = save_content(s.nodes, node, answer.text)]
         IN  IF save_raises(answer.text) THEN saved
             ELSE IF model_parent(saved.nodes, node) = Raised
             THEN [saved EXCEPT !.uncaught = TRUE]
             ELSE saved
    ELSE s

\* FileManager.create_item(parent_node, isdir), the dialog answered `name`
\* and, for a file, the editor opened on the new node ending with `answer`.
\* open_file is called inside the try block here: what it raises is shown
\* by the except clause and does not leave the slot.
create_item(s, parent_node, isdir, name, answer) ==
    LET new_node == Len(s.nodes) + 1
        made == [s EXCEPT
                    !.nodes = create_node(s.nodes, name, isdir, parent_node)]
    IN  IF name = <<>> THEN s
        ELSE IF name_taken(s.nodes, parent_node, name) THEN s
        ELSE IF ~isdir
        THEN [open_file(made, new_node, answer) EXCEPT
                 !.uncaught = s.uncaught]
        ELSE made

\* The try block of delete_item raises before anything is changed: in
\* sibling_index(parent) when node.parent is None, in model.parent(...) when
\* parent.parent is None.
delete_raises(nd, node) ==
    LET parent == nd[node].parent
    IN  \/ sibling_index(nd, parent) = Raised
        \/ model_parent(nd, parent) = Raised

\* FileManager.delete_item(node), the confirmation answered `yes`.
delete_item(s, node, yes) ==
    LET nd == s.nodes
        parent == nd[node].parent
        parent_index == index(nd, sibling_index(nd, parent),
                              model_parent(nd, parent))
        st == delete_node([nd |-> nd, ev |-> <<>>], node, parent_index)
    IN  IF node = Root THEN s
        ELSE IF nd[node].isdir /\ nd[node].child # None /\ ~yes THEN s
        ELSE IF delete_raises(nd, node) THEN s
        ELSE [s EXCEPT
                 !.nodes = st.nd,
                 !.current = IF s.current = node THEN Root ELSE s.current,
                 !.history = without(s.history, node),
                 !.future = without(s.future, node)]

\* The removal notifications (beginRemoveRows / endRemoveRows pairs of
\* remove_node) that delete_item(node) emits, in order; none when it returns
\* or raises before _delete_node.
delete_notifications(s, node, yes) ==
    LET nd == s.nodes
        parent == nd[node].parent
        parent_index == index(nd, sibling_index(nd, parent),
                              model_parent(nd, parent))
    IN  IF node = Root THEN <<>>
        ELSE IF nd[node].isdir /\ nd[node].child # None /\ ~yes THEN <<>>
        ELSE IF delete_raises(nd, node) THEN <<>>
        ELSE delete_node([nd |-> nd, ev |-> <<>>], node, parent_index).ev

\* The scan of rename_item looking at the first sibling only.
rename_clash_head_only(nd, node, new_name) ==
    LET head == nd[nd[node].parent].child
    IN  head # None /\ head # node /\ nd[head].name = new_name

\* The scan of rename_item: a sibling other than node is called new_name.
rename_clash(nd, node, new_name) ==
    \E c \in Range(Chain(nd, nd[nd[node].parent].child)) :
        c # node /\ nd[c].name = new_name

\* rename_item scanning the siblings only when there is a parent.
rename_item_unguarded(s, node, new_name) ==
    IF new_name = <<>> THEN s
    ELSE IF s.nodes[node].parent # None
            /\ rename_clash(s.nodes, node, new_name) THEN s
    ELSE [s EXCEPT !.nodes[node].name = new_name]

\* FileManager.rename_item(node), the dialog answered new_name;
\* node.parent.child raises when node.parent is None.
rename_item(s, node, new_name) ==
    IF new_name = <<>> THEN s
    ELSE IF s.nodes[node].parent = None THEN s
    ELSE IF rename_clash(s.nodes, node, new_name) THEN s
    ELSE [s EXCEPT !.nodes[node].name = new_name]

\* The child of cur called part that the scan of resolve_path finds first.
find_child(nd, cur, part) ==
    LET hits == SelectSeq(Chain(nd, nd[cur].child),
                          LAMBDA c : nd[c].name = part)
    IN  IF Len(hits) = 0 THEN None ELSE hits[1]

RECURSIVE names_up(_, _)
\* The while loop of full_path: the names from node upwards, node's first,
\* the node without a parent left out.
names_up(nd, node) ==
    IF nd[node].parent = None THEN <<>>
    ELSE <<nd[node].name>> \o names_up(nd, nd[node].parent)

\* reversed(path)
reversed(path) == [i \in 1..Len(path) |-> path[Len(path) + 1 - i]]

\* FileNode.full_path()
full_path(nd, node) ==
    LET path == names_up(nd, node)
    IN  IF Len(path) > 0 THEN <<"/">> \o join(reversed(path)) ELSE <<"/">>

RECURSIVE walk_without_parent(_, _, _)
\* The for loop of resolve_path with '..' passed over like '.'.
walk_without_parent(nd, cur, parts) ==
    IF Len(parts) = 0 THEN cur
    ELSE LET part == Head(parts)
             found == find_child(nd, cur, part)
         IN  IF part = <<".">> \/ part = <<".", ".">>
             THEN walk_without_parent(nd, cur, Tail(parts))
             ELSE IF found = None THEN Raised
             ELSE walk_without_parent(nd, found, Tail(parts))

RECURSIVE walk(_, _, _)
\* The for loop of resolve_path over parts, cur the running node.
walk(nd, cur, parts) ==
    IF Len(parts) = 0 THEN cur
    ELSE LET part == Head(parts)
             found == find_child(nd, cur, part)
         IN  IF part = <<".">> THEN walk(nd, cur, Tail(parts))
             ELSE IF part = <<".", ".">>
             THEN walk(nd, IF nd[cur].parent # None THEN nd[cur].parent
                           ELSE cur, Tail(parts))
             ELSE IF found = None THEN Raised
             ELSE walk(nd, found, Tail(parts))

\* FileManager.resolve_path(path): the node, or Raised (FileNotFoundError).
resolve_path(nd, cur, path) ==
    LET p == IF startswith(path, <<"~">>)
             THEN <<"/", "H", "o", "m", "e">> \o SubSeq(path, 2, Len(path))
             ELSE path
        start == IF startswith(p, <<"/">>) THEN Root ELSE cur
    IN  walk(nd, start, nonEmpty(split(p)))

\* FileManager.navigateTree(index), index.data(Qt.UserRole) being node.
navigateTree(s, node) ==
    IF node # None /\ s.nodes[node].isdir
    THEN [s EXCEPT !.history = Append(s.history, s.current),
                   !.future = <<>>,
                   !.current = node]
    ELSE s

\* navigateAddress recording current in history before the path is resolved.
navigateAddress_pushes_first(s, path) ==
    LET node == resolve_path(s.nodes, s.current, path)
    IN  IF node = Raised
        THEN [s EXCEPT !.history = Append(s.history, s.current)]
        ELSE [s EXCEPT !.history = Append(s.history, s.current),
                       !.future = <<>>,
                       !.current = node]

\* navigateAddress leaving self.future as it is.
navigateAddress_keeps_future(s, path) ==
    LET node == resolve_path(s.nodes, s.current, path)
    IN  IF node = Raised THEN s
        ELSE [s EXCEPT !.history = Append(s.history, s.current),
                       !.current = node]

\* FileManager.navigateAddress(), the address bar holding path.
navigateAddress(s, path) ==
    LET node == resolve_path(s.nodes, s.current, path)
    IN  IF node = Raised THEN s
        ELSE [s EXCEPT !.history = Append(s.history, s.current),
                       !.future = <<>>,
                       !.current = node]

\* navigateBack forgetting where it came from.
navigateBack_drops_current(s) ==
    IF Len(s.history) > 0
    THEN [s EXCEPT !.current = s.history[Len(s.history)],
                   !.history = SubSeq(s.history, 1, Len(s.history) - 1)]
    ELSE s

\* FileManager.navigateBack()
navigateBack(s) ==
    IF Len(s.history) > 0
    THEN [s EXCEPT !.future = Append(s.future, s.current),
                   !.current = s.history[Len(s.history)],
                   !.history = SubSeq(s.history, 1, Len(s.history) - 1)]
    ELSE s

\* FileManager.navigateForward()
navigateForward(s) ==
    IF Len(s.future) > 0
    THEN [s EXCEPT !.history = Append(s.history, s.current),
                   !.current = s.future[Len(s.future)],
                   !.future = SubSeq(s.future, 1, Len(s.future) - 1)]
    ELSE s

\* navigateUp recording current in history even when it has no parent.
navigateUp_always_pushes(s) ==
    [s EXCEPT !.history = Append(s.history, s.current),
              !.current = IF s.nodes[s.current].parent # None
                          THEN s.nodes[s.current].parent ELSE s.current]

\* FileManager.navigateUp()
navigateUp(s) ==
    IF s.nodes[s.current].parent # None
    THEN [s EXCEPT !.history = Append(s.history, s.current),
                   !.current = s.nodes[s.current].parent]
    ELSE s

\* ======================================================== simple variant

\* The Filesystem window: the FileNode objects by identity, self.current_node,
\* the node the tree widget was last built from (updateTree's argument; every
\* change of the tree is followed by updateTree, so the widget's items are
\* addTreeItems of that node), and treeWidget.currentItem() as the texts of
\* the item and its ancestors, outermost first (NoItem when there is none).
VARIABLES snodes, current_node, shown, currentItem

simplevars == <<snodes, current_node, shown, currentItem>>

\* treeWidget.currentItem() is None.
NoItem == <<>>

\* FileNode(filename, isdir, parent) of simplefilesystem.py.
SimpleFileNode(filename, isdir, parent) ==
    [filename |-> filename, isdir |-> isdir, parent |-> parent,
     child |-> None, sibling_prev |-> None, sibling_next |-> None]

\* The state of a Filesystem window, as the handlers read and write it.
FS(nd, cur, sh, item) ==
    [snodes |-> nd, current_node |-> cur, shown |-> sh, currentItem |-> item]

RECURSIVE addTreeItems(_, _)
RECURSIVE addSiblingItems(_, _)
\* The while loop of addTreeItems: one call per later sibling.
addSiblingItems(nd, sibling) ==
    IF sibling = None THEN <<>>
    ELSE addTreeItems(nd, sibling)
         \o addSiblingItems(nd, nd[sibling].sibling_next)

\* Filesystem.addTreeItems(node, parent_item): the items it appends to
\* parent_item, in order; an item is its text, the node it was made for and
\* its own child items.
addTreeItems(nd, node) ==
    <<[text |-> nd[node].filename, node |-> node,
       kids |-> IF nd[node].child # None
                THEN addTreeItems(nd, nd[node].child) ELSE <<>>]>>
    \o addSiblingItems(nd, nd[node].sibling_next)

RECURSIVE itemPaths(_, _)
\* For every item below a list of items, the texts from the top down to it.
itemPaths(items, prefix) ==
    UNION {{Append(prefix, items[i].text)}
           \cup itemPaths(items[i].kids, Append(prefix, items[i].text)) :
           i \in 1..Len(items)}

\* The child of node called name that the scans of getNodeFromItem and
\* findNode reach: node.child if it matches, else the first match of the
\* chain; None without a match.
lookup(nd, node, name) ==
    LET hits == SelectSeq(Chain(nd, nd[node].child),
                          LAMBDA c : nd[c].filename = name)
    IN  IF Len(hits) = 0 THEN None ELSE hits[1]

RECURSIVE getNodeFrom(_, _, _)
\* The for loop of getNodeFromItem: a name without a match is passed over.
getNodeFrom(nd, node, names) ==
    IF Len(names) = 0 THEN node
    ELSE LET hit == lookup(nd, node, Head(names))
         IN  getNodeFrom(nd, IF hit # None THEN hit ELSE node, Tail(names))

\* Filesystem.getNodeFromItem(item): path[1:] is walked from root.
getNodeFromItem(nd, item) == getNodeFrom(nd, Root, Tail(item))

RECURSIVE findFrom(_, _, _)
\* The for loop of findNode: "" is skipped, a name without a match ends it.
findFrom(nd, node, names) ==
    IF Len(names) = 0 THEN node
    ELSE LET name == Head(names)
             hit == lookup(nd, node, name)
         IN  IF name = <<>> THEN findFrom(nd, node, Tail(names))
             ELSE IF hit = None THEN None
             ELSE findFrom(nd, hit, Tail(names))

\* Filesystem.findNode(path)
findNode(nd, path) == findFrom(nd, Root, split(path))

\* Filesystem.addChildNode(parent_node, new_node), new_node the last node
\* of nd: it becomes the head of parent_node's chain.
addChildNode(nd, parent_node, new_node) ==
    LET head == nd[parent_node].child
        nd1 == IF head # None
               THEN [nd EXCEPT ![new_node].sibling_next = head,
                               ![head].sibling_prev = new_node]
               ELSE nd
    IN  [nd1 EXCEPT ![parent_node].child = new_node]

\* Filesystem.updateTree(node).  treeWidget.clear() emits
\* itemSelectionChanged when an item is selected, the item still being the
\* current item: onSelectionChanged runs there, on the nodes as they are at
\* that moment.  Then the items are made anew from node, none of them
\* selected.
updateTree(s, node) ==
    [s EXCEPT
        !.current_node = IF s.currentItem # NoItem
                         THEN getNodeFromItem(s.snodes, s.currentItem)
                         ELSE @,
        !.shown = node,
        !.currentItem = NoItem]

\* onCreate without the parent_node.isdir test: any node that is found
\* takes the new child.
onCreate_any_parent(s, path, isdir) ==
    LET nd == s.snodes
        names == split(path)
        name == IF Len(names) > 1 THEN names[Len(names)] ELSE path
        parent_node == IF Len(names) > 1
                       THEN findNode(nd, join(SubSeq(names, 1, Len(names) - 1)))
                       ELSE s.current_node
        new_node == Len(nd) + 1
    IN  IF parent_node # None /\ findNode(nd, path) = None
        THEN updateTree(
                 [s EXCEPT
                     !.snodes = addChildNode(
                         Append(nd, SimpleFileNode(name, isdir, parent_node)),
                         parent_node, new_node)],
                 Root)
        ELSE s

\* The body shared by onCreateDir and onCreateFile.
onCreate(s, path, isdir) ==
    LET nd == s.snodes
        names == split(path)
        name == IF Len(names) > 1 THEN names[Len(names)] ELSE path
        parent_node == IF Len(names) > 1
                       THEN findNode(nd, join(SubSeq(names, 1, Len(names) - 1)))
                       ELSE s.current_node
        new_node == Len(nd) + 1
    IN  IF parent_node # None /\ nd[parent_node].isdir
           /\ findNode(nd, path) = None
        THEN updateTree(
                 [s EXCEPT
                     !.snodes = addChildNode(
                         Append(nd, SimpleFileNode(name, isdir, parent_node)),
                         parent_node, new_node)],
                 Root)
        ELSE s

\* Filesystem.onCreateDir(), the line edit holding path.
onCreateDir(s, path) == onCreate(s, path, TRUE)

\* Filesystem.onCreateFile(), the line edit holding path.
onCreateFile(s, path) == onCreate(s, path, FALSE)

\* The splice of deleteNode, done when node.parent is set.
unlink(nd, node) ==
    LET parent == nd[node].parent
        next == nd[node].sibling_next
        before == SelectSeq(Chain(nd, nd[parent].child),
                            LAMBDA c : nd[c].sibling_next = node)
        sibling == IF Len(before) = 0 THEN None ELSE before[1]
    IN  IF nd[parent].child = node
        THEN LET nd1 == [nd EXCEPT ![parent].child = next]
             IN  IF next # None
                 THEN [nd1 EXCEPT ![next].sibling_prev = None] ELSE nd1
        ELSE IF sibling = None THEN nd
        ELSE LET nd1 == [nd EXCEPT ![sibling].sibling_next = next]
             IN  IF next # None
                 THEN [nd1 EXCEPT ![next].sibling_prev = sibling] ELSE nd1

RECURSIVE deleteNode(_, _)
RECURSIVE deleteSiblings(_, _)
\* The while loop of deleteNode over node's children.
deleteSiblings(s, sibling) ==
    IF sibling = None THEN s
    ELSE LET next_sibling == s.snodes[sibling].sibling_next
         IN  deleteSiblings(deleteNode(s, sibling), next_sibling)

\* Filesystem.deleteNode(node): the splice, the children, then updateTree()
\* at the end of every call, the calls for the children included.
deleteNode(s, node) ==
    LET s1 == IF s.snodes[node].parent # None
              THEN [s EXCEPT !.snodes = unlink(s.snodes, node)]
              ELSE s
    IN  updateTree(deleteSiblings(s1, s1.snodes[node].child), Root)

\* Filesystem.onSelectionChanged(), item having become the current item.
onSelectionChanged(s, item) ==
    [s EXCEPT !.currentItem = item,
              !.current_node = getNodeFromItem(s.snodes, item)]

\* Filesystem.onPathEntered(), the line edit holding path.
onPathEntered(s, path) ==
    LET node == findNode(s.snodes, path)
    IN  IF node # None
        THEN updateTree([s EXCEPT !.current_node = node], node)
        ELSE s

\* Filesystem.onDelete(), the confirmation answered `yes`.
onDelete(s, yes) ==
    LET node == getNodeFromItem(s.snodes, s.currentItem)
    IN  IF s.currentItem = NoItem THEN s
        ELSE IF s.snodes[node].isdir /\ ~yes THEN s
        ELSE deleteNode(s, node)

\* The paths typed into the address bar.
AddressPaths ==
    {<<>>, <<"/">>, <<".", ".">>, <<"a">>, <<"R", "O", "O", "T", "/", "a">>,
     <<"/", "R", "O", "O", "T">>, <<"~">>}

\* The nodes a view shows: everything below the model's top level, which
\* is FileSystemModel.current = root.
Visible == Descendants(nodes, model_current)

\* showContextMenu: the node under the pointer, or self.current when the
\* click is on no row.
MenuNodes == Visible \cup {current}

\* The FileManager as the handlers see it.
fm == [FM(nodes, current, history, future) EXCEPT !.uncaught = uncaught]

\* The handler's result becomes the next state; no handler runs once an
\* exception has left a slot and the process is gone.
Becomes(s) ==
    /\ ~uncaught
    /\ nodes' = s.nodes
    /\ current' = s.current
    /\ history' = s.history
    /\ future' = s.future
    /\ uncaught' = s.uncaught
    /\ UNCHANGED simplevars

\* FileManager.__init__: root, then initFileSystem's ROOT directory.
InitWin ==
    /\ nodes = create_node(<<FileNode(<<>>, TRUE, None)>>, ROOT_NAME, TRUE,
                           Root)
    /\ current = Root
    /\ history = <<>>
    /\ future = <<>>
    /\ uncaught = FALSE

\* Filesystem.__init__: the root "/", shown by updateTree().
InitSimple ==
    /\ snodes = <<SimpleFileNode(<<"/">>, TRUE, None)>>
    /\ current_node = Root
    /\ shown = Root
    /\ currentItem = NoItem

Init == InitWin /\ InitSimple

vars == <<winvars, simplevars>>

\* showContextMenu on a directory, then "new folder" / "new file"; the
\* editor of a new file is closed without saving (no handler but the editor
\* reads a content; saving is left to SpecEdit).
CreateItem ==
    \E parent_node \in MenuNodes, isdir \in BOOLEAN, name \in DialogNames :
        /\ nodes[parent_node].isdir
        /\ Len(nodes) < MaxNodes
        /\ Becomes(create_item(fm, parent_node, isdir, name, EditorCancelled))

\* delete_item(node): from the menu for a node other than root; the
\* handler's own guard is exercised with root as well.
DeleteItem ==
    \E node \in MenuNodes \cup {Root}, yes \in BOOLEAN :
        Becomes(delete_item(fm, node, yes))

\* rename_item(node): as for delete_item.
RenameItem ==
    \E node \in MenuNodes \cup {Root}, new_name \in DialogNames :
        Becomes(rename_item(fm, node, new_name))

\* A double click on a row of the tree view.
NavigateTree ==
    \E node \in Visible :
        /\ Len(history) < MaxHist
        /\ Becomes(navigateTree(fm, node))

\* Return pressed in the address bar.
NavigateAddress ==
    \E path \in AddressPaths :
        /\ Len(history) < MaxHist
        /\ Becomes(navigateAddress(fm, path))

\* The toolbar's back button.
NavigateBack ==
    /\ Len(future) < MaxHist
    /\ Becomes(navigateBack(fm))

\* The toolbar's forward button.
NavigateForward ==
    /\ Len(history) < MaxHist
    /\ Becomes(navigateForward(fm))

\* The toolbar's up button.
NavigateUp ==
    /\ Len(history) < MaxHist
    /\ Becomes(navigateUp(fm))

NextWin ==
    \/ CreateItem
    \/ DeleteItem
    \/ RenameItem
    \/ NavigateTree
    \/ NavigateAddress
    \/ NavigateBack
    \/ NavigateForward
    \/ NavigateUp

Spec == Init /\ [][NextWin]_vars

\* ------------------------------------------- Windows variant with editing
\* The texts the editor is saved with: "", "hello", a text of a two-byte,
\* a three-byte and a four-byte character, and "a" followed by the
\* unpaired surrogate U+D800, which toPlainText() hands over as it is.
EditorTexts ==
    {<<>>, <<104, 101, 108, 108, 111>>, <<233, 8364, 128512>>,
     <<97, 55296>>}

\* The ways a FileEditor dialog ends.
EditorAnswers == {EditorCancelled} \cup {EditorSaved(t) : t \in EditorTexts}

\* showContextMenu on a directory, then "new folder" / "new file", the
\* editor of a new file ending either way.
CreateItemEdit ==
    \E parent_node \in MenuNodes, isdir \in BOOLEAN, name \in DialogNames,
       answer \in EditorAnswers :
        /\ nodes[parent_node].isdir
        /\ Len(nodes) < MaxEditNodes
        /\ Becomes(create_item(fm, parent_node, isdir, name, answer))

\* open_file(node): "open" of the menu or a double click in the list for a
\* file; the handler's own guard is exercised with directories as well.
OpenFile ==
    \E node \in MenuNodes, answer \in EditorAnswers :
        Becomes(open_file(fm, node, answer))

NextEdit ==
    \/ CreateItemEdit
    \/ OpenFile
    \/ DeleteItem
    \/ RenameItem
    \/ NavigateTree
    \/ NavigateAddress
    \/ NavigateBack
    \/ NavigateForward
    \/ NavigateUp

SpecEdit == Init /\ [][NextEdit]_vars

\* ------------------------------- Windows variant with names of any shape
\* Names the QInputDialog of create_item / rename_item is answered with
\* besides the plain ones: '.', '..' and a name holding '/'.  Both handlers
\* turn down the empty answer only.
PathLikeNames == {<<"a">>, <<".">>, <<".", ".">>, <<"a", "/", "b">>}

\* showContextMenu on a directory, then "new folder" / "new file", the
\* dialog answered with any of these names and the editor of a new file
\* closed without saving.
CreateItemNamed ==
    \E parent_node \in MenuNodes, isdir \in BOOLEAN, name \in PathLikeNames :
        /\ nodes[parent_node].isdir
        /\ Len(nodes) < MaxNamedNodes
        /\ Becomes(create_item(fm, parent_node, isdir, name, EditorCancelled))

\* rename_item(node), the dialog answered with any of these names.
RenameItemNamed ==
    \E node \in MenuNodes \cup {Root}, new_name \in PathLikeNames :
        Becomes(rename_item(fm, node, new_name))

NextNames ==
    \/ CreateItemNamed
    \/ RenameItemNamed
    \/ DeleteItem

SpecNames == Init /\ [][NextNames]_vars

\* ------------------------------------------------ simple variant, actions
\* The paths typed into the line edit.
SimplePaths ==
    {<<>>, <<"/">>, <<"a">>, <<"b">>, <<"a", "/", "a">>, <<"a", "/", "b">>,
     <<"/", "a">>, <<"a", "/">>}

\* The Filesystem window as the handlers see it.
fs == FS(snodes, current_node, shown, currentItem)

\* The items of the tree widget: updateTree(shown).
treeItems == addTreeItems(snodes, shown)

\* The handler's result becomes the next state.
BecomesSimple(s) ==
    /\ snodes' = s.snodes
    /\ current_node' = s.current_node
    /\ shown' = s.shown
    /\ currentItem' = s.currentItem
    /\ UNCHANGED winvars

\* A click on an item of the tree widget.
SelectItem ==
    \E item \in itemPaths(treeItems, <<>>) :
        BecomesSimple(onSelectionChanged(fs, item))

\* Return pressed in the line edit.
PathEntered ==
    \E path \in SimplePaths : BecomesSimple(onPathEntered(fs, path))

\* The "Create Directory" button.
CreateDir ==
    \E path \in SimplePaths :
        /\ Len(snodes) < MaxSimpleNodes
        /\ BecomesSimple(onCreateDir(fs, path))

\* The "Create File" button.
CreateFile ==
    \E path \in SimplePaths :
        /\ Len(snodes) < MaxSimpleNodes
        /\ BecomesSimple(onCreateFile(fs, path))

\* The "Delete" button.
Delete ==
    \E yes \in BOOLEAN : BecomesSimple(onDelete(fs, yes))

NextSimple ==
    \/ SelectItem
    \/ PathEntered
    \/ CreateDir
    \/ CreateFile
    \/ Delete

SpecSimple == Init /\ [][NextSimple]_vars

\* ------------------------------------------------------- either variant
\* The two programs are separate processes, each started by its own
\* __main__: a run is a run of one of them, and the window of the other
\* stays as its constructor left it.
NextBoth ==
    \/ InitSimple /\ CreateItem
    \/ InitSimple /\ DeleteItem
    \/ InitSimple /\ RenameItem
    \/ InitSimple /\ NavigateTree
    \/ InitSimple /\ NavigateAddress
    \/ InitSimple /\ NavigateBack
    \/ InitSimple /\ NavigateForward
    \/ InitSimple /\ NavigateUp
    \/ InitWin /\ SelectItem
    \/ InitWin /\ PathEntered
    \/ InitWin /\ CreateDir
    \/ InitWin /\ CreateFile
    \/ InitWin /\ Delete

SpecBoth == Init /\ [][NextBoth]_vars

\* ================================================================ claims

RECURSIVE InOrder(_)
\* The elements of a finite set of identities, in creation order.
InOrder(S) ==
    IF S = {} THEN <<>>
    ELSE LET m == CHOOSE x \in S : \A y \in S : x <= y
         IN  <<m>> \o InOrder(S \ {m})

\* The nodes whose parent reference is p.
ChildrenOf(nd, p) == {n \in DOMAIN nd : nd[n].parent = p}

\* No element occurs twice in the sequence.
NoRepeat(s) == \A i, j \in 1..Len(s) : s[i] = s[j] => i = j

\* The names along the sibling chain under p.
ChainNames(nd, p) ==
    LET ch == Chain(nd, nd[p].child) IN [i \in 1..Len(ch) |-> nd[ch[i]].name]

\* The filenames along the sibling chain under p (simple variant).
ChainFilenames(nd, p) ==
    LET ch == Chain(nd, nd[p].child)
    IN  [i \in 1..Len(ch) |-> nd[ch[i]].filename]

\* delete_item(node) confirmed with Yes runs to its end: the try block
\* raises nothing.
DeleteCompletes(node) == node # Root /\ ~delete_raises(nodes, node)

\* C1: Windows-style variant.  In every reachable state, for every directory
\* d the menu offers that has descendants and whose delete_item(d) completes:
\* afterwards no descendant of d is reachable from root, and neither d nor a
\* descendant of d occurs in history or future.
C1_DeleteScrubsSubtree ==
    \A d \in MenuNodes :
        (nodes[d].isdir /\ Descendants(nodes, d) # {} /\ DeleteCompletes(d))
        => LET after == delete_item(fm, d, TRUE)
               gone == {d} \cup Descendants(nodes, d)
           IN  /\ Descendants(nodes, d) \cap Reachable(after.nodes) = {}
               /\ gone \cap Range(after.history) = {}
               /\ gone \cap Range(after.future) = {}

\* C2: Windows-style variant.  In every reachable state current is root or
\* a node reachable from root.
C2_CurrentReachable == current \in Reachable(nodes)

\* C3: Windows-style variant.  In every reachable state, for every node
\* below root (at any depth, direct children of root included), delete_item
\* confirmed with Yes leaves the node out of its former parent's chain.
C3_DeleteAtEveryDepth ==
    \A node \in Visible :
        LET after == delete_item(fm, node, TRUE)
            parent == nodes[node].parent
        IN  node \notin Range(Chain(after.nodes, after.nodes[parent].child))

\* C4: Windows-style variant.  In every reachable state no two nodes of one
\* sibling chain have the same name, and a create_item under a directory the
\* menu offers, with the name of one of its children (of either kind), leaves
\* the FileManager exactly as it was.
C4_SiblingNamesUnique ==
    /\ \A p \in DOMAIN nodes : NoRepeat(ChainNames(nodes, p))
    /\ \A p \in MenuNodes, isdir \in BOOLEAN, name \in DialogNames :
           (nodes[p].isdir
            /\ \E n \in ChildrenOf(nodes, p) : nodes[n].name = name)
           => \A answer \in EditorAnswers :
                  create_item(fm, p, isdir, name, answer) = fm

\* C4's case: a directory the menu offers holds two children, a file and a
\* directory, one of them renamed since its creation or ROOT renamed, so a
\* create_item with either name is refused.
C4_Witness ==
    \E p \in MenuNodes :
        /\ nodes[p].isdir
        /\ nodes[2].name # ROOT_NAME
        /\ \E m, n \in ChildrenOf(nodes, p) :
               /\ nodes[m].isdir /\ ~nodes[n].isdir
               /\ create_item(fm, p, TRUE, nodes[n].name, EditorCancelled) = fm
               /\ create_item(fm, p, FALSE, nodes[m].name, EditorCancelled)
                      = fm

\* C5: simple variant.  In every reachable state no two nodes of one sibling
\* chain have the same filename.
C5_SimpleNamesUnique ==
    \A p \in DOMAIN snodes : NoRepeat(ChainFilenames(snodes, p))

\* C6: Windows-style variant.  In every reachable state, for every node p
\* reachable from root, the walk p.child, sibling_next yields exactly the
\* nodes whose parent is p, each once, in creation order, and rowCount of
\* p's index is their number.
C6_ListingIsLiveChildren ==
    \A p \in Reachable(nodes) :
        /\ Chain(nodes, nodes[p].child) = InOrder(ChildrenOf(nodes, p))
        /\ rowCount(nodes, IF p = Root THEN None ELSE p)
               = Cardinality(ChildrenOf(nodes, p))

\* C6's case: a directory below root lists two children or more after a node
\* created before the last of them was deleted.
C6_Witness ==
    \E p \in Reachable(nodes) \ {Root} :
        LET ch == Chain(nodes, nodes[p].child)
        IN  /\ Len(ch) >= 2
            /\ \E n \in DOMAIN nodes :
                   /\ n # Root /\ n \notin Reachable(nodes)
                   /\ n < ch[Len(ch)]

RECURSIVE ItemsListChildren(_)
\* Every item of the list, and every item below it, has as child items
\* exactly the reachable children of its node, each once, in creation order.
ItemsListChildren(items) ==
    \A i \in 1..Len(items) :
        /\ [k \in 1..Len(items[i].kids) |-> items[i].kids[k].node]
               = InOrder(ChildrenOf(snodes, items[i].node)
                         \cap Reachable(snodes))
        /\ ItemsListChildren(items[i].kids)

\* C7: simple variant.  In every reachable state the items updateTree builds
\* under a directory's item are exactly that directory's live children, each
\* once, in creation order (a new node goes to the tail of the chain).
C7_SimpleListing == ItemsListChildren(treeItems)

\* C8: Windows-style variant.  In every reachable state root has no parent,
\* no sibling and its original name, and delete_item(root) and
\* rename_item(root) leave the FileManager exactly as it was.
C8_RootKept ==
    /\ nodes[Root].parent = None
    /\ nodes[Root].sibling_prev = None
    /\ nodes[Root].sibling_next = None
    /\ nodes[Root].name = <<>>
    /\ \A yes \in BOOLEAN : delete_item(fm, Root, yes) = fm
    /\ \A new_name \in DialogNames : rename_item(fm, Root, new_name) = fm

\* C8's case: root is asked to be deleted and renamed while it has children,
\* is not the current node, and a node called "a" exists.
C8_Witness ==
    /\ nodes[Root].child # None
    /\ current # Root
    /\ history # <<>>
    /\ \E n \in Visible : nodes[n].name = <<"a">>
    /\ delete_item(fm, Root, TRUE) = fm
    /\ rename_item(fm, Root, <<"a">>) = fm

\* C9: simple variant.  In every reachable state where the current item
\* stands for root, onDelete confirmed with Yes leaves the nodes as before.
C9_SimpleDeleteRootRefused ==
    (currentItem # NoItem /\ getNodeFromItem(snodes, currentItem) = Root)
    => onDelete(fs, TRUE).snodes = snodes

\* C10: Windows-style variant.  In every reachable state where current has
\* a parent, navigateUp pushes current onto history, clears future and
\* makes the parent current.
C10_UpIsNavigateTo ==
    nodes[current].parent # None
    => navigateUp(fm) = [fm EXCEPT !.history = Append(history, current),
                                   !.future = <<>>,
                                   !.current = nodes[current].parent]

\* C11: Windows-style variant.  In every reachable state (current = c,
\* history = H, future = F), navigateTree to any directory a view shows and
\* navigateAddress with any path that resolves end in current = the target,
\* history = H with c appended, future empty, and the nodes as they were.
C11_DirectNavigation ==
    /\ \A node \in Visible :
           nodes[node].isdir
           => navigateTree(fm, node)
                  = FM(nodes, node, Append(history, current), <<>>)
    /\ \A path \in AddressPaths :
           LET target == resolve_path(nodes, current, path)
           IN  target # Raised
               => navigateAddress(fm, path)
                      = FM(nodes, target, Append(history, current), <<>>)

\* C11's case: with a forward history to lose, a directory other than current
\* is double-clicked and a path to a third node is entered.
C11_Witness ==
    /\ future # <<>>
    /\ history # <<>>
    /\ \E node \in Visible, path \in AddressPaths :
           LET target == resolve_path(nodes, current, path)
           IN  /\ nodes[node].isdir /\ node # current
               /\ navigateTree(fm, node).current = node
               /\ navigateTree(fm, node).future = <<>>
               /\ target \notin {Raised, current, node, Root}
               /\ navigateAddress(fm, path).current = target
               /\ navigateAddress(fm, path).future = <<>>

\* C12: Windows-style variant.  In every reachable state: navigateTree to a
\* directory A, then to a directory B, then navigateBack makes A current and
\* navigateForward after it makes B current; with a history, navigateBack
\* appends current to future and pops history into current, and
\* navigateForward after it gives back the very same current, history and
\* future; with a future, navigateBack after navigateForward does the same.
C12_BackForward ==
    /\ \A A, B \in Visible :
           (nodes[A].isdir /\ nodes[B].isdir)
           => LET there == navigateTree(navigateTree(fm, A), B)
                  back == navigateBack(there)
              IN  /\ back.current = A
                  /\ navigateForward(back).current = B
                  /\ navigateForward(back) = there
    /\ history # <<>>
       => /\ navigateBack(fm)
                 = FM(nodes, history[Len(history)],
                      SubSeq(history, 1, Len(history) - 1),
                      Append(future, current))
          /\ navigateForward(navigateBack(fm)) = fm
    /\ future # <<>>
       => /\ navigateForward(fm)
                 = FM(nodes, future[Len(future)], Append(history, current),
                      SubSeq(future, 1, Len(future) - 1))
          /\ navigateBack(navigateForward(fm)) = fm

\* C12's case: two directories other than current, with a history and a
\* future of different nodes behind, so that back and forward both act.
C12_Witness ==
    /\ history # <<>> /\ future # <<>>
    /\ history[Len(history)] # future[Len(future)]
    /\ current \notin {history[Len(history)], future[Len(future)]}
    /\ navigateForward(navigateBack(fm)) = fm
    /\ \E A, B \in Visible :
           /\ nodes[A].isdir /\ nodes[B].isdir
           /\ A # B /\ current \notin {A, B}
           /\ navigateBack(navigateTree(navigateTree(fm, A), B)).current = A

\* C13: Windows-style variant.  In every reachable state, whatever node is
\* current there, for every node b below root whose full path resolves to
\* it: resolve_path of that path followed by "/.." returns b's parent, which
\* is what resolve_path of the parent's full path returns.
C13_ParentOfPath ==
    \A b \in Visible :
        LET path == full_path(nodes, b)
            a == nodes[b].parent
            up == resolve_path(nodes, current, path \o <<"/", ".", ".">>)
        IN  resolve_path(nodes, current, path) = b
            => /\ up = resolve_path(nodes, current, full_path(nodes, a))
               /\ up = a

\* C13's case: a node two directories below root, its path and its parent's
\* path both resolving while current is elsewhere, a node having been deleted
\* and a name changed since.
C13_Witness ==
    \E b \in Visible :
        LET a == nodes[b].parent
        IN  /\ a # Root /\ nodes[a].parent # Root
            /\ current \notin {a, b, Root}
            /\ nodes[2].name # ROOT_NAME
            /\ \E n \in DOMAIN nodes : n # Root /\ n \notin Reachable(nodes)
            /\ resolve_path(nodes, current, full_path(nodes, b)) = b
            /\ resolve_path(nodes, current,
                            full_path(nodes, b) \o <<"/", ".", ".">>) = a
            /\ resolve_path(nodes, current, full_path(nodes, a)) = a

RECURSIVE SegmentsFrom(_, _, _)
\* The maximal runs of characters other than '/' in path[i..], in order,
\* run being the one under way.
SegmentsFrom(path, i, run) ==
    LET done == IF run = <<>> THEN <<>> ELSE <<run>>
    IN  IF i > Len(path) THEN done
        ELSE IF path[i] = "/" THEN done \o SegmentsFrom(path, i + 1, <<>>)
        ELSE SegmentsFrom(path, i + 1, Append(run, path[i]))

\* The non-empty segments of a path.
Segments(path) == SegmentsFrom(path, 1, <<>>)

\* The children of n called seg, by their parent reference.
NamedChildren(nd, n, seg) ==
    {c \in DOMAIN nd : nd[c].parent = n /\ nd[c].name = seg}

RECURSIVE RefWalk(_, _, _)
\* The reference walk: '.' keeps the running node n, '..' moves to its parent
\* if it has one, any other segment moves to the child of that name; Raised
\* when there is no such child.
RefWalk(nd, n, segs) ==
    IF segs = <<>> THEN n
    ELSE LET seg == Head(segs)
             named == NamedChildren(nd, n, seg)
         IN  IF seg = <<".">> THEN RefWalk(nd, n, Tail(segs))
             ELSE IF seg = <<".", ".">>
             THEN RefWalk(nd, IF nd[n].parent # None THEN nd[n].parent ELSE n,
                          Tail(segs))
             ELSE IF named = {} THEN Raised
             ELSE RefWalk(nd, CHOOSE c \in named : TRUE, Tail(segs))

\* Where the reference walk starts: root for a path beginning with '/',
\* current otherwise.
RefStart(path) ==
    IF Len(path) > 0 /\ path[1] = "/" THEN Root ELSE current

\* The path the segments are taken from: a leading '~' stands for '/Home'.
HomeExpanded(path) ==
    IF Len(path) > 0 /\ path[1] = "~"
    THEN <<"/", "H", "o", "m", "e">> \o Tail(path)
    ELSE path

\* Walking the non-empty segments of path in order, some segment other than
\* '.' and '..' does not name a child of the running node.
SegmentMissing(path) ==
    LET segs == Segments(path)
    IN  \E i \in 1..Len(segs) :
            LET running == RefWalk(nodes, RefStart(path),
                                   SubSeq(segs, 1, i - 1))
            IN  /\ running # Raised
                /\ segs[i] \notin {<<".">>, <<".", ".">>}
                /\ NamedChildren(nodes, running, segs[i]) = {}

\* The paths resolve_path is asked for: those of the address bar, and more
\* with '.', '..', repeated and trailing slashes, deeper and missing names.
PathsTried ==
    AddressPaths \cup
    {<<"/", ".", ".">>, <<".", ".", "/", ".", ".">>, <<".", "/", "a">>,
     <<"a", "/", ".", ".", "/", "b">>, <<"b">>, <<"a", "/", "b">>,
     <<"/", "R", "O", "O", "T", "/", "a", "/", "b">>,
     <<"/", "R", "O", "O", "T", "/", ".", "/", "a", "/", ".", ".", "/", "b">>,
     <<"c">>, <<"/", "a">>, <<"~", "/", "a">>, <<"b", "/", "c", "/", ".", ".">>,
     <<"/", "/", "R", "O", "O", "T", "/", "/", "b", "/">>}

\* C14: Windows-style variant.  In every reachable state and for every path
\* tried (a leading '~' standing for '/Home'), resolve_path raises exactly
\* when, walking the non-empty segments in order, some segment other than
\* '.' and '..' does not name a child of the running node; and then
\* navigateAddress leaves current, history, future and the nodes as they
\* were.
C14_NotFoundChangesNothing ==
    \A path \in PathsTried :
        LET missing == SegmentMissing(HomeExpanded(path))
        IN  /\ (resolve_path(nodes, current, path) = Raised) <=> missing
            /\ missing => navigateAddress(fm, path) = fm

\* C14's case: with a history and a future, a path fails at its second
\* segment, after a first one that names a child, and another at a segment
\* after '..'.
C14_Witness ==
    /\ history # <<>> /\ future # <<>>
    /\ \E path \in PathsTried :
           LET segs == Segments(path)
           IN  /\ Len(segs) >= 2
               /\ RefWalk(nodes, RefStart(path), <<segs[1]>>)
                      \notin {Raised, current}
               /\ SegmentMissing(path)
               /\ resolve_path(nodes, current, path) = Raised
               /\ navigateAddress(fm, path) = fm
    /\ resolve_path(nodes, current, <<"a", "/", ".", ".", "/", "b">>) = Raised
    /\ resolve_path(nodes, current, <<"a">>) # Raised

RECURSIVE Slashed(_)
\* The path with every '/' doubled.
Slashed(path) ==
    IF path = <<>> THEN <<>>
    ELSE IF Head(path) = "/" THEN <<"/", "/">> \o Slashed(Tail(path))
    ELSE <<Head(path)>> \o Slashed(Tail(path))

\* C15: Windows-style variant.  In every reachable state and for every path
\* tried that does not begin with '~', resolve_path returns what the
\* reference walk over the non-empty segments returns, started at root when
\* the path begins with '/' and at current otherwise; a non-empty path with
\* every slash doubled and a slash appended resolves alike; and "/.."
\* resolves to root.
C15_ReferenceWalk ==
    /\ \A path \in PathsTried :
           ~startswith(path, <<"~">>)
           => LET node == resolve_path(nodes, current, path)
              IN  /\ node = RefWalk(nodes, RefStart(path), Segments(path))
                  /\ path # <<>>
                     => resolve_path(nodes, current,
                                     Append(Slashed(path), "/")) = node
    /\ resolve_path(nodes, current, <<"/", ".", ".">>) = Root

\* C15's case: from a current below root, a relative path and an absolute
\* path of several segments, with '.', '..' and doubled slashes, resolve to
\* different nodes, and '..' repeated from current stops at root.
C15_Witness ==
    /\ current # Root /\ nodes[current].parent \notin {None, Root}
    /\ LET rel == resolve_path(nodes, current,
                               <<"a", "/", ".", ".", "/", "b">>)
           abs == resolve_path(nodes, current,
                               <<"/", "/", "R", "O", "O", "T", "/", "/",
                                 "b", "/">>)
       IN  /\ rel # Raised /\ abs # Raised /\ rel # abs
           /\ nodes[rel].parent = current
    /\ resolve_path(nodes, current, <<".", ".", "/", ".", ".">>) = Root
    /\ resolve_path(nodes, Root, <<".", ".", "/", ".", ".">>) = Root

\* C16: Windows-style variant.  In every reachable state, for every node
\* below root and every name the dialog accepts: rename_item leaves the
\* FileManager exactly as it was if another child of the node's parent has
\* that name; otherwise the only change is the node's name (its own name
\* included), so its place in the chain, its parent and its children stay.
C16_RenameChecksSiblings ==
    \A node \in Visible, new_name \in DialogNames \ {<<>>} :
        LET after == rename_item(fm, node, new_name)
            taken == \E c \in ChildrenOf(nodes, nodes[node].parent) :
                         c # node /\ nodes[c].name = new_name
        IN  IF taken THEN after = fm
            ELSE after = [fm EXCEPT !.nodes[node].name = new_name]

\* C16's case: a node with children and a later sibling, for which one name
\* is refused, held by a sibling that is not the head of the chain, and
\* another name, not its own, is taken.
C16_Witness ==
    \E node \in Visible, taken, free \in DialogNames \ {<<>>} :
        /\ nodes[node].child # None
        /\ nodes[node].sibling_next # None
        /\ free # nodes[node].name
        /\ taken # nodes[node].name
        /\ rename_item(fm, node, taken) = fm
        /\ rename_item(fm, node, free).nodes[node].name = free

RECURSIVE WalkEnds(_, _, _)
\* Following sibling_next from n comes to None within k steps.
WalkEnds(nd, n, k) ==
    IF n = None THEN TRUE
    ELSE IF k = 0 THEN FALSE
    ELSE WalkEnds(nd, nd[n].sibling_next, k - 1)

\* C17: Windows-style variant.  In every reachable state, for every node p
\* reachable from root: following sibling_next from p.child ends (no cycle);
\* p.child is None or a node whose sibling_prev is None; and every node n of
\* the chain with a sibling_next m has m.sibling_prev = n.
C17_ChainsAreLists ==
    \A p \in Reachable(nodes) :
        LET head == nodes[p].child
        IN  /\ WalkEnds(nodes, head, Len(nodes))
            /\ head # None => nodes[head].sibling_prev = None
            /\ \A n \in Range(Chain(nodes, head)) :
                   LET m == nodes[n].sibling_next
                   IN  m # None => nodes[m].sibling_prev = n

\* C17's case: a directory below root whose chain holds two nodes or more
\* after an earlier head of a chain was deleted.
C17_Witness ==
    \E p \in Reachable(nodes) \ {Root} :
        LET ch == Chain(nodes, nodes[p].child)
        IN  /\ Len(ch) >= 2
            /\ nodes[ch[2]].sibling_prev = ch[1]
            /\ \E n \in DOMAIN nodes :
                   /\ n # Root /\ n \notin Reachable(nodes)
                   /\ n < ch[1]

\* The number of bytes of the UTF-8 form of a text: one per code point, and
\* one more for each code point from U+0080, from U+0800 and from U+10000 on.
Utf8Length(text) ==
    Len(text)
    + Cardinality({i \in DOMAIN text : text[i] >= 128})
    + Cardinality({i \in DOMAIN text : text[i] >= 2048})
    + Cardinality({i \in DOMAIN text : text[i] >= 65536})

\* C18: Windows-style variant.  In every reachable state every file's size
\* is the UTF-8 byte length of its content and every directory has the
\* content "" and the size 0; open_file on a directory the menu offers
\* changes nothing whatever the editor would answer; a file just created has
\* the size 0 when its editor is closed without saving; and saving "hello"
\* to a file makes its size 5.
C18_SizeIsByteLength ==
    /\ \A n \in DOMAIN nodes :
           IF nodes[n].isdir
           THEN nodes[n].content = <<>> /\ nodes[n].size = 0
           ELSE nodes[n].size = Utf8Length(nodes[n].content)
    /\ \A n \in MenuNodes, answer \in EditorAnswers :
           nodes[n].isdir => open_file(fm, n, answer) = fm
    /\ \A p \in MenuNodes, name \in DialogNames :
           LET after == create_item(fm, p, FALSE, name, EditorCancelled)
           IN  (nodes[p].isdir /\ after # fm)
               => /\ after.nodes[Len(nodes) + 1].size = 0
                  /\ after.nodes[Len(nodes) + 1].content = <<>>
    /\ \A n \in MenuNodes :
           ~nodes[n].isdir
           => LET hello == <<104, 101, 108, 108, 111>>
                  after == open_file(fm, n, EditorSaved(hello))
              IN  after.nodes[n].content = hello /\ after.nodes[n].size = 5

\* C19: Windows-style variant.  In every reachable state, for every directory
\* d the menu offers whose delete_item(d) completes, wherever d stands in its
\* parent's chain: the removal notifications name d and each descendant of d
\* exactly once, every descendant before each of its ancestors.
C19_OneNotificationPerNode ==
    \A d \in MenuNodes :
        (nodes[d].isdir /\ DeleteCompletes(d))
        => LET ev == delete_notifications(fm, d, TRUE)
           IN  /\ NoRepeat(ev)
               /\ Range(ev) = {d} \cup Descendants(nodes, d)
               /\ \A i, j \in 1..Len(ev) :
                      ev[j] \in Descendants(nodes, ev[i]) => j < i

\* C20: Windows-style variant.  In every reachable state navigateBack with an
\* empty history, navigateForward with an empty future, and navigateUp when
\* current has no parent each leave current, history, future and the nodes
\* exactly as they were.
C20_NothingToNavigate ==
    /\ history = <<>> => navigateBack(fm) = fm
    /\ future = <<>> => navigateForward(fm) = fm
    /\ nodes[current].parent = None => navigateUp(fm) = fm

\* C20's case: back at root with an empty history and a forward history
\* left, in a tree that has grown: back and up have nothing to do while
\* forward has.
C20_Witness ==
    /\ history = <<>>
    /\ future # <<>>
    /\ nodes[current].parent = None
    /\ Len(nodes) > 2
    /\ navigateBack(fm) = fm
    /\ navigateUp(fm) = fm
    /\ navigateForward(fm) # fm

\* C21: Windows-style variant.  In every reachable state, for every directory
\* d the menu offers whose delete_item(d) completes, wherever d stands in its
\* parent's chain: afterwards d and each of its descendants has parent,
\* sibling_prev, sibling_next and child all None.
C21_DestroyedLinksCleared ==
    \A d \in MenuNodes :
        (nodes[d].isdir /\ DeleteCompletes(d))
        => LET after == delete_item(fm, d, TRUE).nodes
           IN  \A n \in {d} \cup Descendants(nodes, d) :
                   /\ after[n].parent = None
                   /\ after[n].sibling_prev = None
                   /\ after[n].sibling_next = None
                   /\ after[n].child = None

\* C22: Windows-style variant.  In every reachable state current is a
\* directory, and so is every entry of history and of future.
C22_OnlyDirectoriesVisited ==
    /\ nodes[current].isdir
    /\ \A i \in 1..Len(history) : nodes[history[i]].isdir
    /\ \A i \in 1..Len(future) : nodes[future[i]].isdir

\* C23: Windows-style variant.  In every state reached by create, rename and
\* delete operations with any non-empty names ('.', '..' and names holding
\* '/' included), for every node n reachable from root, resolve_path of
\* n.full_path() returns n.
C23_FullPathResolves ==
    \A n \in Reachable(nodes) :
        resolve_path(nodes, current, full_path(nodes, n)) = n

\* A node list where no file has a child and no node hangs under a file.
FilesAreLeaves(nd) ==
    \A n \in DOMAIN nd :
        /\ ~nd[n].isdir => nd[n].child = None
        /\ nd[n].parent # None => nd[nd[n].parent].isdir

\* C24: both variants.  In every reachable state a file has no child, and
\* no node has a file as its parent; and every creation on offer there
\* (create_item from the context menu of a directory, onCreateDir and
\* onCreateFile with any path) leaves it so.
C24_FilesHaveNoChildren ==
    /\ FilesAreLeaves(nodes)
    /\ FilesAreLeaves(snodes)
    /\ \A parent_node \in MenuNodes, isdir \in BOOLEAN, name \in DialogNames :
           nodes[parent_node].isdir
           => FilesAreLeaves(create_item(fm, parent_node, isdir, name,
                                         EditorCancelled).nodes)
    /\ \A path \in SimplePaths, isdir \in BOOLEAN :
           FilesAreLeaves(onCreate(fs, path, isdir).snodes)

\* The simple variant with a file selected and the name b free: Create
\* Directory with "b" is turned down although nothing is called b.
C24_Witness_CreateUnderFileRefused ==
    /\ current_node # None
    /\ ~snodes[current_node].isdir
    /\ Len(snodes) < MaxSimpleNodes
    /\ findNode(snodes, <<"b">>) = None
    /\ onCreateDir(fs, <<"b">>) = fs

====
